---- MODULE Spec2Model ----
(***************************************************************************)
(* K-nearest-neighbour engagement predictor (tiktok_knn.cpp).              *)
(*                                                                         *)
(* One run of main(): argument checks, dataset load, query parsing,        *)
(* Jaccard scoring, top-K selection (nth_element + sort), aggregation and  *)
(* the report.  Strings are sequences of one-character strings, so that    *)
(* split, atoi, stoll and isdigit are computed character by character.     *)
(* A float is the integer number of units of 2^-24 it holds: every value   *)
(* jaccard can return for small sets is such a multiple (see jaccard).     *)
(***************************************************************************)
EXTENDS Integers, Sequences, FiniteSets, TLC

\* ------------------------------------------------------------------ bounds
\* Longest dataset file, in lines.
MaxLines == 3
\* Largest neighbour count requested on the command line (one digit).
MaxK == 3

\* ------------------------------------------------------- character helpers
DigitChars == <<"0", "1", "2", "3", "4", "5", "6", "7", "8", "9">>

\* std::isdigit
isdigit(c) == \E k \in 1..Len(DigitChars) : DigitChars[k] = c

DigitVal(c) == (CHOOSE k \in 1..Len(DigitChars) : DigitChars[k] = c) - 1

RECURSIVE SkipSpace(_, _)
SkipSpace(s, k) ==
    IF k <= Len(s) /\ s[k] = " " THEN SkipSpace(s, k + 1) ELSE k

RECURSIVE AccumDigits(_, _, _)
AccumDigits(s, k, acc) ==
    IF k <= Len(s) /\ isdigit(s[k])
    THEN AccumDigits(s, k + 1, acc * 10 + DigitVal(s[k]))
    ELSE acc

\* The conversion shared by atoi and stoll (strtol/strtoll, base 10): leading
\* blanks, an optional sign, then the longest run of digits; what follows the
\* digits is ignored.  ok is FALSE when there is no digit to convert.
strtoll(s) ==
    LET k0  == SkipSpace(s, 1)
        sgn == k0 <= Len(s) /\ s[k0] \in {"-", "+"}
        neg == sgn /\ s[k0] = "-"
        k1  == IF sgn THEN k0 + 1 ELSE k0
        v   == AccumDigits(s, k1, 0)
    IN  [ok |-> k1 <= Len(s) /\ isdigit(s[k1]), val |-> IF neg THEN -v ELSE v]

\* std::atoi: 0 when no conversion can be performed.
atoi(s) == IF strtoll(s).ok THEN strtoll(s).val ELSE 0

\* std::stoll throws std::invalid_argument when no conversion can be performed.
stollThrows(s) == ~strtoll(s).ok
stoll(s) == strtoll(s).val

RECURSIVE SplitFrom(_, _, _, _, _)
SplitFrom(s, delim, k, buf, out) ==
    LET flushed == IF buf # <<>> THEN Append(out, buf) ELSE out
    IN  IF k > Len(s) THEN flushed
        ELSE IF s[k] = delim THEN SplitFrom(s, delim, k + 1, <<>>, flushed)
        ELSE SplitFrom(s, delim, k + 1, Append(buf, s[k]), out)

\* split: the non-empty substrings of s between delimiters, in order.
split(s, delim) == SplitFrom(s, delim, 1, <<>>, <<>>)

\* The unordered_set built by inserting every token of a ';' list.
TagSet(s) == LET toks == split(s, ";") IN {toks[k] : k \in 1..Len(toks)}

\* ------------------------------------------------------------ float model
RECURSIVE TwoTo(_)
TwoTo(n) == IF n = 0 THEN 1 ELSE 2 * TwoTo(n - 1)

\* The powers of two a 32-bit integer holds.
Pow2Table == [n \in 0..30 |-> TwoTo(n)]

Pow2(n) == Pow2Table[n]

\* Width of a float's significand, in bits.
FloatBits == 24

\* 1.0f in units of 2^-24.
FloatOne == Pow2(FloatBits)

\* n / d rounded to the nearest integer, ties to even (IEEE-754 default).
RoundHalfEven(n, d) ==
    LET q == n \div d
        r == n % d
    IN  IF 2 * r < d THEN q
        ELSE IF 2 * r > d THEN q + 1
        ELSE IF q % 2 = 0 THEN q ELSE q + 1

RECURSIVE QuotExp(_, _, _)
\* Least e >= 23 with a * 2^e / b >= 2^23: the quotient's binary exponent.
QuotExp(a, b, e) ==
    IF a * Pow2(e) >= b * Pow2(FloatBits - 1) THEN e ELSE QuotExp(a, b, e + 1)

\* static_cast<float>(a) / static_cast<float>(b) for 0 < a <= b: the pair
\* <<m, e>> stands for the float m / 2^e, m a 24-bit significand.
FloatDiv(a, b) ==
    LET e == QuotExp(a, b, FloatBits - 1)
        m == RoundHalfEven(a * Pow2(e), b)
    IN  IF m = FloatOne THEN <<Pow2(FloatBits - 1), e - 1>> ELSE <<m, e>>

\* 1.f - x for the float x = q[1] / 2^q[2] in (0, 1], in units of 2^-24.
\* For x >= 1/2 the difference is exact; for x < 1/2 it lies in (1/2, 1) and
\* is rounded to the float grid there, whose step is 2^-24.
FloatOneMinus(q) ==
    LET m == q[1]
        e == q[2]
    IN  IF e <= FloatBits THEN FloatOne - m * Pow2(FloatBits - e)
        ELSE RoundHalfEven(Pow2(e) - m, Pow2(e - FloatBits))

\* Jaccard distance between two tag sets, as the code computes it.
jaccardNoOverlapTerm(A, B) ==
    IF A = {} /\ B = {} THEN 0
    ELSE LET inter == Cardinality({t \in A : t \in B})
             uni   == Cardinality(A) + Cardinality(B)
         IN  IF inter = 0 THEN FloatOne
             ELSE FloatOneMinus(FloatDiv(inter, uni))

jaccard(A, B) ==
    IF A = {} /\ B = {} THEN 0
    ELSE LET inter == Cardinality({t \in A : t \in B})
             uni   == Cardinality(A) + Cardinality(B) - inter
         IN  IF inter = 0 THEN FloatOne
             ELSE FloatOneMinus(FloatDiv(inter, uni))

\* long long division truncates toward zero.
TruncDiv(a, b) == IF a >= 0 THEN a \div b ELSE -((-a) \div b)

\* --------------------------------------------------------- selection model
RECURSIVE PermsOf(_)
\* The arrangements of the elements of S, as sequences.
PermsOf(S) ==
    IF S = {} THEN {<<>>}
    ELSE UNION {{<<x>> \o p : p \in PermsOf(S \ {x})} : x \in S}

\* The permutations of 1..n, for every length a neighbour vector can have.
PermTable == [n \in 0..MaxLines |-> PermsOf(1..n)]

Perms(n) == PermTable[n]

Rearrangements(seq) ==
    {[j \in 1..Len(seq) |-> seq[p[j]]] : p \in Perms(Len(seq))}

\* The comparator handed to nth_element and sort.
DistLess(a, b) == a.dist < b.dist

NthElementOutcomesNoop(seq, k) == {seq}

NthElementOutcomesAnyOrder(seq, k) == Rearrangements(seq)

\* std::nth_element(first, first + k, last, comp): every arrangement the
\* contract allows.  With nth = last nothing is promised about the order;
\* otherwise the element at nth is the one a full sort would put there, and
\* no element from nth on compares less than an element before nth.
NthElementOutcomes(seq, k) ==
    LET n == Len(seq)
    IN  {o \in Rearrangements(seq) :
            k < n =>
                /\ \A b \in (k + 1)..n : ~DistLess(o[b], o[k + 1])
                /\ \A a \in 1..k : \A b \in (k + 1)..n : ~DistLess(o[b], o[a])}

SortOutcomesNoop(seq, k) == {seq}

\* std::sort(first, first + k, comp): the first k elements rearranged into
\* non-descending order, equal elements in any order; the rest untouched.
SortOutcomes(seq, k) ==
    {o \in Rearrangements(seq) :
        /\ \A j \in (k + 1)..Len(seq) : o[j] = seq[j]
        /\ \A a, b \in 1..k : a < b => ~DistLess(o[b], o[a])}

\* ------------------------------------------------------------------ inputs
HeaderLine == <<"i", ",", "t">>
EmptyLine  == <<>>
RowA       == <<"1", ",", "a", ",", "5", ",", "0", ",", "2">>
RowAB      == <<"2", ",", "a", ";", "b", ",", "2", ",", "1", ",", "0">>
RowNeg     == <<"3", ",", "b", ",", "-", "3", ",", "4", ",", "1">>
RowBadNum  == <<"5", ",", "a", ",", "x", ",", "0", ",", "0">>

LineCatalog ==
    {HeaderLine, EmptyLine, RowA, RowAB, RowNeg, RowBadNum}

Files == UNION {[1..n -> LineCatalog] : n \in 0..MaxLines}

KArgs == {<<"x">>, <<"-", "1">>} \cup {<<DigitChars[k + 1]>> : k \in 1..MaxK}

QueryArgs == {<<"a">>, <<"a", ";", "b">>, <<";">>}

\* The command lines and dataset sources a run is started with.  With a wrong
\* argument count or an unopenable source the remaining inputs are not read.
Inputs ==
    {[argc |-> c, argv1 |-> <<"1">>, argv3 |-> <<>>, fileOK |-> TRUE, file |-> <<>>] :
        c \in {3, 5}}
    \cup
    {[argc |-> 4, argv1 |-> k, argv3 |-> q, fileOK |-> FALSE, file |-> <<>>] :
        k \in KArgs, q \in QueryArgs}
    \cup
    {[argc |-> 4, argv1 |-> k, argv3 |-> q, fileOK |-> TRUE, file |-> f] :
        k \in KArgs, q \in QueryArgs, f \in Files}

\* ------------------------------------------------------------------- state
VARIABLES
    argc, argv1, argv3,     \* command line: argument count, <K>, "tag1;tag2"
    fileOK, file,           \* dataset source: can it be opened, its lines
    pc,                     \* position in main()
    K,                      \* neighbour count
    opened,                 \* std::ifstream fin(argv[2]) has been constructed
    pos,                    \* next line fin will read
    videos,                 \* std::vector<Record>
    qParsed, qTags,         \* the query has been split; its tag set
    nbrs,                   \* std::vector<Node>
    sums, pred,             \* sumViews.. / pViews.., as <<views, likes, comments>>
    i,                      \* index of the output loop
    out, err, rc,           \* std::cout lines, std::cerr message, exit status
    jA, jB, jAB, jBA        \* arguments and results of a direct jaccard call

vars == <<argc, argv1, argv3, fileOK, file, pc, K, opened, pos, videos,
          qParsed, qTags, nbrs, sums, pred, i, out, err, rc, jA, jB, jAB, jBA>>

inputVars == <<argc, argv1, argv3, fileOK, file>>
jVars == <<jA, jB, jAB, jBA>>

Init ==
    /\ \E in \in Inputs :
        /\ argc = in.argc
        /\ argv1 = in.argv1
        /\ argv3 = in.argv3
        /\ fileOK = in.fileOK
        /\ file = in.file
    /\ pc = "args"
    /\ K = 0
    /\ opened = FALSE
    /\ pos = 1
    /\ videos = <<>>
    /\ qParsed = FALSE
    /\ qTags = {}
    /\ nbrs = <<>>
    /\ sums = <<0, 0, 0>>
    /\ pred = <<0, 0, 0>>
    /\ i = 0
    /\ out = <<>>
    /\ err = "none"
    /\ rc = 0
    /\ jA = {} /\ jB = {} /\ jAB = 0 /\ jBA = 0

\* return <status> from main after writing <message> to std::cerr.
Fail(message, status) ==
    /\ err' = message
    /\ rc' = status
    /\ pc' = "exit"

\* ----------------------------------------------------------------- actions
\* if (argc != 4) { usage; return 1; }
CheckArgs ==
    /\ pc = "args"
    /\ IF argc # 4
       THEN Fail("usage", 1)
       ELSE pc' = "parseK" /\ UNCHANGED <<err, rc>>
    /\ UNCHANGED <<inputVars, jVars, K, opened, pos, videos, qParsed, qTags,
                   nbrs, sums, pred, i, out>>

ParseKUnchecked ==
    /\ pc = "parseK"
    /\ K' = atoi(argv1)
    /\ pc' = "open"
    /\ UNCHANGED <<inputVars, jVars, opened, pos, videos, qParsed, qTags,
                   nbrs, sums, pred, i, out, err, rc>>

\* int K = std::atoi(argv[1]); if (K <= 0) { error; return 1; }
ParseK ==
    /\ pc = "parseK"
    /\ K' = atoi(argv1)
    /\ IF K' <= 0
       THEN Fail("K must be positive", 1)
       ELSE pc' = "open" /\ UNCHANGED <<err, rc>>
    /\ UNCHANGED <<inputVars, jVars, opened, pos, videos, qParsed, qTags,
                   nbrs, sums, pred, i, out>>

\* std::ifstream fin(argv[2]); if (!fin) { error; return 1; }
OpenDataset ==
    /\ pc = "open"
    /\ opened' = TRUE
    /\ IF ~fileOK
       THEN Fail("Cannot open dataset", 1)
       ELSE pc' = "header" /\ UNCHANGED <<err, rc>>
    /\ UNCHANGED <<inputVars, jVars, K, pos, videos, qParsed, qTags, nbrs,
                   sums, pred, i, out>>

\* The first getline: a first line that starts with a non-digit is a header
\* and stays consumed; otherwise seekg(0) rewinds to it.  On an empty file the
\* getline fails and every later read fails with it.
SkipHeader ==
    /\ pc = "header"
    /\ pos' = IF file # <<>> /\ file[1] # <<>> /\ ~isdigit(file[1][1])
              THEN 2 ELSE 1
    /\ pc' = "load"
    /\ UNCHANGED <<inputVars, jVars, K, opened, videos, qParsed, qTags, nbrs,
                   sums, pred, i, out, err, rc>>

\* The Record built from the columns of one row.
MakeRecord(cols) ==
    [id       |-> cols[1],
     tags     |-> TagSet(cols[2]),
     views    |-> stoll(cols[3]),
     likes    |-> stoll(cols[4]),
     comments |-> stoll(cols[5])]

\* One iteration of while (std::getline(fin, line)).  A std::stoll that throws
\* is not caught: std::terminate reports the exception and aborts (SIGABRT).
LoadRow ==
    /\ pc = "load"
    /\ pos <= Len(file)
    /\ pos' = pos + 1
    /\ LET line == file[pos]
           cols == split(line, ",")
       IN  IF line = <<>> \/ Len(cols) < 5
           THEN UNCHANGED <<videos, pc, err, rc>>
           ELSE IF \E c \in 3..5 : stollThrows(cols[c])
           THEN Fail("terminate: std::invalid_argument", 134) /\ UNCHANGED videos
           ELSE /\ videos' = Append(videos, MakeRecord(cols))
                /\ UNCHANGED <<pc, err, rc>>
    /\ UNCHANGED <<inputVars, jVars, K, opened, qParsed, qTags, nbrs, sums,
                   pred, i, out>>

LoadDoneReturnsZero ==
    /\ pc = "load"
    /\ pos > Len(file)
    /\ IF videos = <<>>
       THEN Fail("Dataset is empty or malformed", 0)
       ELSE pc' = "query" /\ UNCHANGED <<err, rc>>
    /\ UNCHANGED <<inputVars, jVars, K, opened, pos, videos, qParsed, qTags,
                   nbrs, sums, pred, i, out>>

\* End of the read loop: if (videos.empty()) { error; return 1; }
LoadDone ==
    /\ pc = "load"
    /\ pos > Len(file)
    /\ IF videos = <<>>
       THEN Fail("Dataset is empty or malformed", 1)
       ELSE pc' = "query" /\ UNCHANGED <<err, rc>>
    /\ UNCHANGED <<inputVars, jVars, K, opened, pos, videos, qParsed, qTags,
                   nbrs, sums, pred, i, out>>

ParseQueryUnchecked ==
    /\ pc = "query"
    /\ qTags' = TagSet(argv3)
    /\ qParsed' = TRUE
    /\ pc' = "score"
    /\ UNCHANGED <<inputVars, jVars, K, opened, pos, videos, nbrs, sums, pred,
                   i, out, err, rc>>

\* qTags from split(argv[3], ';'); if (qTags.empty()) { error; return 1; }
ParseQuery ==
    /\ pc = "query"
    /\ qTags' = TagSet(argv3)
    /\ qParsed' = TRUE
    /\ IF qTags' = {}
       THEN Fail("Provide at least one tag", 1)
       ELSE pc' = "score" /\ UNCHANGED <<err, rc>>
    /\ UNCHANGED <<inputVars, jVars, K, opened, pos, videos, nbrs, sums, pred,
                   i, out>>

ScoreOneSameIdx ==
    /\ pc = "score"
    /\ Len(nbrs) < Len(videos)
    /\ nbrs' = Append(nbrs, [dist |-> jaccard(qTags, videos[Len(nbrs) + 1].tags),
                             idx  |-> 0])
    /\ UNCHANGED <<inputVars, jVars, pc, K, opened, pos, videos, qParsed,
                   qTags, sums, pred, i, out, err, rc>>

\* One iteration of the scoring loop: nbrs.push_back({jaccard(..), i}).
ScoreOne ==
    /\ pc = "score"
    /\ Len(nbrs) < Len(videos)
    /\ nbrs' = Append(nbrs, [dist |-> jaccard(qTags, videos[Len(nbrs) + 1].tags),
                             idx  |-> Len(nbrs)])
    /\ UNCHANGED <<inputVars, jVars, pc, K, opened, pos, videos, qParsed,
                   qTags, sums, pred, i, out, err, rc>>

\* End of the scoring loop: if (K > nbrs.size()) K = nbrs.size();
ClampK ==
    /\ pc = "score"
    /\ Len(nbrs) = Len(videos)
    /\ K' = IF K > Len(nbrs) THEN Len(nbrs) ELSE K
    /\ pc' = "nth"
    /\ UNCHANGED <<inputVars, jVars, opened, pos, videos, qParsed, qTags, nbrs,
                   sums, pred, i, out, err, rc>>

\* std::nth_element(nbrs.begin(), nbrs.begin() + K, nbrs.end(), by dist)
NthElement ==
    /\ pc = "nth"
    /\ nbrs' \in NthElementOutcomes(nbrs, K)
    /\ pc' = "sort"
    /\ UNCHANGED <<inputVars, jVars, K, opened, pos, videos, qParsed, qTags,
                   sums, pred, i, out, err, rc>>

\* std::sort(nbrs.begin(), nbrs.begin() + K, by dist)
SortPrefix ==
    /\ pc = "sort"
    /\ nbrs' \in SortOutcomes(nbrs, K)
    /\ pc' = "aggregate"
    /\ UNCHANGED <<inputVars, jVars, K, opened, pos, videos, qParsed, qTags,
                   sums, pred, i, out, err, rc>>

RECURSIVE SumMetric(_, _, _, _)
\* The accumulation loop over the first k neighbours, for one metric.
SumMetric(nb, recs, k, metric) ==
    IF k = 0 THEN 0
    ELSE SumMetric(nb, recs, k - 1, metric) + recs[nb[k].idx + 1][metric]

\* sumViews, sumLikes, sumComments over the first k neighbours.
SumsOf(nb, recs, k) ==
    <<SumMetric(nb, recs, k, "views"),
      SumMetric(nb, recs, k, "likes"),
      SumMetric(nb, recs, k, "comments")>>

\* pViews, pLikes, pComments: each sum divided by k.
AveragesOf(s, k) == <<TruncDiv(s[1], k), TruncDiv(s[2], k), TruncDiv(s[3], k)>>

\* The three sums over the K neighbours and their quotients by K.
Aggregate ==
    /\ pc = "aggregate"
    /\ sums' = SumsOf(nbrs, videos, K)
    /\ pred' = AveragesOf(sums', K)
    /\ pc' = "print"
    /\ UNCHANGED <<inputVars, jVars, K, opened, pos, videos, qParsed, qTags,
                   nbrs, i, out, err, rc>>

\* The two lines that open the report.
PredictionLines(p, k) ==
    <<[kind |-> "predicted", views |-> p[1], likes |-> p[2], comments |-> p[3]],
      [kind |-> "top", k |-> k]>>

\* The line written for neighbour number n (1-based) of the report.
NeighbourLine(nb, recs, n) ==
    LET v == recs[nb[n].idx + 1]
    IN  [kind |-> "neighbour", rank |-> n, id |-> v.id, dist |-> nb[n].dist,
         views |-> v.views, likes |-> v.likes, comments |-> v.comments]

\* "Predicted -> Views:.. Likes:.. Comments:.." and "Top K neighbours:".
PrintPrediction ==
    /\ pc = "print"
    /\ out' = out \o PredictionLines(pred, K)
    /\ i' = 0
    /\ pc' = "neighbours"
    /\ UNCHANGED <<inputVars, jVars, K, opened, pos, videos, qParsed, qTags,
                   nbrs, sums, pred, err, rc>>

\* One iteration of the output loop.
PrintNeighbour ==
    /\ pc = "neighbours"
    /\ i < K
    /\ out' = Append(out, NeighbourLine(nbrs, videos, i + 1))
    /\ i' = i + 1
    /\ UNCHANGED <<inputVars, jVars, pc, K, opened, pos, videos, qParsed,
                   qTags, nbrs, sums, pred, err, rc>>

\* return 0;
Finish ==
    /\ pc = "neighbours"
    /\ i = K
    /\ rc' = 0
    /\ pc' = "exit"
    /\ UNCHANGED <<inputVars, jVars, K, opened, pos, videos, qParsed, qTags,
                   nbrs, sums, pred, i, out, err>>

Next ==
    \/ CheckArgs
    \/ ParseK
    \/ OpenDataset
    \/ SkipHeader
    \/ LoadRow
    \/ LoadDone
    \/ ParseQuery
    \/ ScoreOne
    \/ ClampK
    \/ NthElement
    \/ SortPrefix
    \/ Aggregate
    \/ PrintPrediction
    \/ PrintNeighbour
    \/ Finish

Spec == Init /\ [][Next]_vars

\* ------------------------------------------------- jaccard called directly
\* Largest number of distinct tags the two sets of a direct call draw from.
MaxTags == 4

TagNames == <<"a", "b", "c", "d", "e", "f", "g", "h">>

Tags == {<<TagNames[k]>> : k \in 1..MaxTags}

\* Any two tag sets, before jaccard is called on them.
InitJ ==
    /\ jA \in SUBSET Tags
    /\ jB \in SUBSET Tags
    /\ jAB = 0 /\ jBA = 0
    /\ pc = "jaccard"
    /\ argc = 4 /\ argv1 = <<"1">> /\ argv3 = <<>> /\ fileOK = TRUE /\ file = <<>>
    /\ K = 0 /\ opened = FALSE /\ pos = 1 /\ videos = <<>>
    /\ qParsed = FALSE /\ qTags = {} /\ nbrs = <<>>
    /\ sums = <<0, 0, 0>> /\ pred = <<0, 0, 0>> /\ i = 0
    /\ out = <<>> /\ err = "none" /\ rc = 0

\* jaccard(A, B) and jaccard(B, A).
JaccardCall ==
    /\ pc = "jaccard"
    /\ jAB' = jaccard(jA, jB)
    /\ jBA' = jaccard(jB, jA)
    /\ pc' = "jaccardDone"
    /\ UNCHANGED <<inputVars, jA, jB, K, opened, pos, videos, qParsed, qTags,
                   nbrs, sums, pred, i, out, err, rc>>

SpecJ == InitJ /\ [][JaccardCall]_vars

\* ================================================================ properties
\* The neighbour count the command line asked for.
RequestedK == atoi(argv1)

Min(a, b) == IF a <= b THEN a ELSE b

\* The run is past std::sort: nbrs holds the selection.
Selected == pc \in {"aggregate", "print", "neighbours"} \/ (pc = "exit" /\ rc = 0)

\* The run has returned 0.
Succeeded == pc = "exit" /\ rc = 0

\* The distance of every record to the query, in dataset order.
ComputedDists == [j \in 1..Len(videos) |-> jaccard(qTags, videos[j].tags)]

\* How often each value occurs in a sequence of numbers.
Multiset(seq) ==
    [d \in {seq[j] : j \in 1..Len(seq)} |->
        Cardinality({j \in 1..Len(seq) : seq[j] = d})]

RECURSIVE Insert(_, _)
\* x put into the ascending sequence seq at its place.
Insert(seq, x) ==
    IF seq = <<>> THEN <<x>>
    ELSE IF x <= Head(seq) THEN <<x>> \o seq
    ELSE <<Head(seq)>> \o Insert(Tail(seq), x)

RECURSIVE Ascending(_)
\* The ascending arrangement of a sequence of numbers.
Ascending(seq) ==
    IF seq = <<>> THEN <<>> ELSE Insert(Ascending(Tail(seq)), Head(seq))

\* The neighbour lines of the report.
ReportedNeighbours == SubSeq(out, 3, Len(out))

\* C1: after nth_element and sort, the distances of the first K neighbours
\* are, as a multiset, the min(K, N) smallest of the N computed distances,
\* and no neighbour left out is strictly nearer than one that is reported.
SelectionPicksSmallest ==
    Selected =>
        /\ K = Min(RequestedK, Len(videos))
        /\ Multiset([j \in 1..K |-> nbrs[j].dist])
             = Multiset(SubSeq(Ascending(ComputedDists), 1, K))
        /\ \A a \in 1..K : \A b \in (K + 1)..Len(nbrs) :
               ~(nbrs[b].dist < nbrs[a].dist)

\* C1 witness: a finished run that left a strictly farther record out and
\* whose nearest record is not the first of the dataset.
SelectionWitness ==
    /\ Succeeded
    /\ K < Len(nbrs)
    /\ nbrs[1].idx # 0
    /\ \E b \in (K + 1)..Len(nbrs) : nbrs[b].dist > nbrs[K].dist

\* C2 as stated: for every dataset of N >= 1 records and every K >= 1 (the
\* query is parsed exactly then) the run succeeds, reporting min(K, N)
\* neighbours in non-decreasing distance order.
RunSucceedsForEveryDatasetAndK ==
    (pc = "exit" /\ qParsed) =>
        /\ rc = 0
        /\ Len(ReportedNeighbours) = Min(RequestedK, Len(videos))
        /\ \A a, b \in 1..Len(ReportedNeighbours) :
               a < b => ReportedNeighbours[a].dist <= ReportedNeighbours[b].dist

\* C2 amended: for every dataset of N >= 1 records, every K >= 1 and every
\* non-empty query the run succeeds, reporting exactly min(K, N) neighbours
\* in non-decreasing distance order; K > N is clamped to N.
RunSucceedsForNonEmptyQuery ==
    (pc = "exit" /\ qParsed /\ qTags # {}) =>
        /\ rc = 0
        /\ err = "none"
        /\ Len(ReportedNeighbours) = Min(RequestedK, Len(videos))
        /\ out[2].k = Min(RequestedK, Len(videos))
        /\ \A a, b \in 1..Len(ReportedNeighbours) :
               a < b => ReportedNeighbours[a].dist <= ReportedNeighbours[b].dist

\* C2 witness: more neighbours requested than records exist, all reported,
\* and the report order differs from the dataset order.
ClampWitness ==
    /\ Succeeded
    /\ RequestedK > Len(videos)
    /\ Len(ReportedNeighbours) = Len(videos)
    /\ Len(videos) >= 2
    /\ nbrs[1].idx # 0
    /\ nbrs[1].dist < nbrs[2].dist

\* C3: jaccard(A, B) is 0 for two empty sets and otherwise
\* 1 - |A n B| / |A u B| (to within the one float unit the two roundings of
\* the computation can cost); it is symmetric, lies in [0, 1], is 0 exactly
\* when A = B and is 1 exactly when A and B are disjoint and not both empty.
JaccardIsMetric ==
    pc = "jaccardDone" =>
        LET inter == Cardinality(jA \cap jB)
            uni   == Cardinality(jA \cup jB)
            exact == (uni - inter) * FloatOne
        IN  /\ uni = 0 => jAB = 0
            /\ uni > 0 => /\ jAB * uni - exact <= uni
                          /\ exact - jAB * uni <= uni
            /\ uni > 0 /\ exact % uni = 0 => jAB = exact \div uni
            /\ jAB = jBA
            /\ 0 <= jAB /\ jAB <= FloatOne
            /\ jAB = 0 <=> jA = jB
            /\ jAB = FloatOne <=> (jA \cap jB = {} /\ jA \cup jB # {})

\* C3 witness: two different overlapping sets whose distance (2/3) is not a
\* float.
JaccardWitness ==
    /\ pc = "jaccardDone"
    /\ Cardinality(jA \cap jB) = 1
    /\ Cardinality(jA \cup jB) = 3
    /\ 0 < jAB /\ jAB < FloatOne

\* C4: in a successful run each predicted value is the floor of the sum of
\* that metric over the K selected records divided by K.
PredictionIsFloorOfMean ==
    Succeeded =>
        LET s == SumsOf(nbrs, videos, K)
        IN  /\ out[1].views = s[1] \div K
            /\ out[1].likes = s[2] \div K
            /\ out[1].comments = s[3] \div K

\* The neighbour vector at the end of the scoring loop.
Scored ==
    [j \in 1..Len(videos) |->
        [dist |-> jaccard(qTags, videos[j].tags), idx |-> j - 1]]

\* The report written from a selection nb of k neighbours.
ReportOf(nb, k) ==
    PredictionLines(AveragesOf(SumsOf(nb, videos, k), k), k)
        \o [n \in 1..k |-> NeighbourLine(nb, videos, n)]

\* The distances of the neighbour lines of a report.
DistancesOf(report) == [n \in 1..(Len(report) - 2) |-> report[n + 2].dist]

\* No two records are at the same distance from the query.
DistinctDistances ==
    LET d == ComputedDists
    IN  \A a, b \in 1..Len(d) : d[a] = d[b] => a = b

\* C5 as stated: whatever arrangement the contracts of nth_element and sort
\* allow, the report (records, order, prediction) is the one the run wrote.
ReportDetermined ==
    Succeeded =>
        LET scored == Scored
        IN  \A m \in NthElementOutcomes(scored, K) :
                \A o \in SortOutcomes(m, K) : ReportOf(o, K) = out

\* C5 amended: the reported distances are determined by the input, and when
\* no two records are equally far from the query so are the selected
\* records, their order and the prediction.
ReportDeterminedWithoutTies ==
    Succeeded =>
        LET scored  == Scored
            written == DistancesOf(out)
        IN  /\ \A m \in NthElementOutcomes(scored, K) :
                   \A o \in SortOutcomes(m, K) :
                       DistancesOf(ReportOf(o, K)) = written
            /\ DistinctDistances =>
                   \A m \in NthElementOutcomes(scored, K) :
                       \A o \in SortOutcomes(m, K) : ReportOf(o, K) = out

\* C5 witness: three records at three different distances, two selected, the
\* nearest not first in the dataset.
DeterminedWitness ==
    /\ Succeeded
    /\ DistinctDistances
    /\ Len(videos) = 3
    /\ K = 2
    /\ nbrs[1].idx # 0

\* The query argument holds no tag.
EmptyQuery == argc = 4 /\ TagSet(argv3) = {}

\* C6 as stated: with an empty query (and a valid K) the run ends with the
\* query's error whatever the dataset source is, without scoring or output.
EmptyQueryAlwaysQueryError ==
    (pc = "exit" /\ EmptyQuery /\ RequestedK > 0) =>
        /\ err = "Provide at least one tag"
        /\ rc # 0
        /\ nbrs = <<>> /\ out = <<>>

\* C6 amended: with an empty query the run never scores or prints and ends
\* with a non-zero status; the error is the query's when K is positive and
\* the dataset loaded at least one record, and otherwise the error of the K
\* check or of the load (a row with a non-numeric metric included), which
\* come first.
EmptyQueryFails ==
    EmptyQuery =>
        /\ nbrs = <<>> /\ out = <<>>
        /\ pc \notin {"score", "nth", "sort", "aggregate", "print", "neighbours"}
        /\ pc = "exit" =>
            /\ rc # 0
            /\ (err = "Provide at least one tag") <=> qParsed
            /\ qParsed <=> (RequestedK > 0 /\ fileOK /\ videos # <<>>
                            /\ err # "terminate: std::invalid_argument")
            /\ ~qParsed => err \in {"K must be positive", "Cannot open dataset",
                                    "Dataset is empty or malformed",
                                    "terminate: std::invalid_argument"}

\* C6 witness: an empty query rejected after a dataset of two records loaded.
EmptyQueryWitness ==
    /\ pc = "exit"
    /\ EmptyQuery
    /\ err = "Provide at least one tag"
    /\ Len(videos) = 2

\* C7: once K has been parsed as <= 0 the run has failed with a non-zero
\* status, the dataset was never opened or read, the query never parsed and
\* nothing reported.
NonPositiveKFailsBeforeLoad ==
    (argc = 4 /\ pc \notin {"args", "parseK"} /\ K <= 0) =>
        /\ pc = "exit"
        /\ rc # 0
        /\ err = "K must be positive"
        /\ ~opened /\ pos = 1 /\ videos = <<>>
        /\ ~qParsed /\ qTags = {}
        /\ nbrs = <<>> /\ out = <<>>

\* C7 witness: a negative K rejected although dataset and query are usable.
NonPositiveKWitness ==
    /\ pc = "exit"
    /\ argc = 4
    /\ K < 0
    /\ fileOK /\ Len(file) = 2 /\ file[1] = RowA
    /\ TagSet(argv3) # {}

\* The report is whole: the prediction, the heading and K neighbour lines,
\* K being the clamped neighbour count.
CompleteReport ==
    /\ K = Min(RequestedK, Len(videos))
    /\ K >= 1
    /\ Len(out) = K + 2
    /\ out[1].kind = "predicted"
    /\ out[2] = [kind |-> "top", k |-> K]
    /\ \A n \in 1..K : out[n + 2].kind = "neighbour" /\ out[n + 2].rank = n

\* C8: a run ends either with a complete report and status 0, or with an
\* error message and a non-zero status; an error never follows report
\* content.
ReportOrFailure ==
    /\ pc = "exit" =>
        \/ rc = 0 /\ err = "none" /\ CompleteReport
        \/ rc # 0 /\ err # "none" /\ out = <<>>
    /\ err # "none" => pc = "exit" /\ out = <<>>
    /\ out # <<>> => pc \in {"neighbours", "exit"}

\* C8 witness: a row with a non-numeric metric ends the run after an
\* earlier row was loaded.
FailureWitness ==
    /\ pc = "exit"
    /\ err = "terminate: std::invalid_argument"
    /\ Len(videos) = 1
    /\ out = <<>>

\* C9: from the end of the scoring loop on there is one neighbour per
\* record, the idx fields are a permutation of 0..N-1, each with the distance
\* computed for its record, so the K selected positions are distinct.
OneNeighbourPerRecord ==
    (pc \in {"nth", "sort", "aggregate", "print", "neighbours"} \/ Succeeded) =>
        /\ Len(nbrs) = Len(videos)
        /\ {nbrs[j].idx : j \in 1..Len(nbrs)} = 0..(Len(videos) - 1)
        /\ \A j \in 1..Len(nbrs) :
               nbrs[j].dist = jaccard(qTags, videos[nbrs[j].idx + 1].tags)
        /\ \A a, b \in 1..K : nbrs[a].idx = nbrs[b].idx => a = b

\* C9 witness: three records whose neighbours the selection has reordered.
PermutedWitness ==
    /\ Succeeded
    /\ Len(videos) = 3
    /\ nbrs[1].idx = 2
    /\ nbrs[3].idx = 0

\* Every row of the file has five non-empty fields, the last three of them
\* convertible by stoll.
WellFormedFile ==
    \A l \in 1..Len(file) :
        LET cols == split(file[l], ",")
        IN  Len(cols) >= 5 /\ \A c \in 3..5 : ~stollThrows(cols[c])

\* C10: for a file of well-formed rows every loaded record has non-negative
\* views, likes and comments, and so are the sums and the averages.
LoadedMetricsNonNegative ==
    WellFormedFile =>
        /\ \A j \in 1..Len(videos) :
               videos[j].views >= 0 /\ videos[j].likes >= 0
               /\ videos[j].comments >= 0
        /\ \A m \in 1..3 : sums[m] >= 0 /\ pred[m] >= 0

====
